---------------------------- MODULE Spec2Model ----------------------------
(***************************************************************************)
(* State-machine model of the WebPConverter component                      *)
(* (src/pages/index.tsx; src/unnamed/part_000 is a second version of it    *)
(* with another downloadAllFiles): the working set, the batch conversion   *)
(* pipeline of convertAllFiles / convertToWebP, the statistics it          *)
(* publishes, formatFileSize, and the retrieval of the results.            *)
(*                                                                         *)
(* React state is modelled by one variable per useState cell; a setter     *)
(* takes effect in the step that calls it (React renders again before the  *)
(* next event is delivered, so every handler runs against the closure of   *)
(* the latest state).  The locals of the one running convertAllFiles call  *)
(* are the record "batch".  The image codec (Image decode, canvas.toBlob)  *)
(* is the environment: its callbacks are separate actions.                 *)
(*                                                                         *)
(* Numbers: JavaScript doubles are modelled by exact rationals.  A         *)
(* percentage is kept as a reduced fraction; toFixed(1) is computed on the *)
(* exact quotient (the byte counts of the model stay clear of the exact    *)
(* .x5 ties on which a double could round the other way).                  *)
(***************************************************************************)
EXTENDS Integers, Sequences, FiniteSets, TLC

(***************************************************************************)
(* Bounds of the model.                                                    *)
(***************************************************************************)
\* most items the working set holds in Spec
MaxFiles == 2
\* most items the working set holds in SelectSpec
MaxSelectFiles == 3
\* most items one FileList offers to handleFileSelect
MaxOffer == 2
\* most items of a working set BatchSpec starts from
MaxBatchFiles == 3
\* most items the working set holds in RetrievalSpec and in EditSpec
MaxRetrievalFiles == 2

(***************************************************************************)
(* Characters and strings.  A file name or a media type is a sequence of   *)
(* one-character strings, so that startsWith, endsWith, toLowerCase and    *)
(* the extension regex are computed and not assumed.                       *)
(***************************************************************************)
ToLowerChar(c) ==
    CASE c = "A" -> "a" [] c = "B" -> "b" [] c = "E" -> "e" [] c = "G" -> "g"
      [] c = "J" -> "j" [] c = "N" -> "n" [] c = "P" -> "p" [] c = "W" -> "w"
      [] OTHER -> c

ToLowerCase(s) == [k \in 1..Len(s) |-> ToLowerChar(s[k])]

StartsWith(s, p) == Len(s) >= Len(p) /\ SubSeq(s, 1, Len(p)) = p

EndsWith(s, p) == Len(s) >= Len(p) /\ SubSeq(s, Len(s) - Len(p) + 1, Len(s)) = p

ImagePrefix == <<"i", "m", "a", "g", "e", "/">>

DotWebp == <<".", "w", "e", "b", "p">>

(***************************************************************************)
(* File objects the user can offer.  A File is identified by its           *)
(* reference; name, type and size are its read-only properties.            *)
(***************************************************************************)
FileObjects ==
    [ f1 |-> [name |-> <<"a", ".", "p", "n", "g">>,
              type |-> <<"i", "m", "a", "g", "e", "/", "p", "n", "g">>,
              size |-> 1000000],
      f2 |-> [name |-> <<"b", ".", "J", "P", "G">>,
              type |-> <<"i", "m", "a", "g", "e", "/", "j", "p", "e", "g">>,
              size |-> 500000],
      f3 |-> [name |-> <<"c">>,
              type |-> <<"i", "m", "a", "g", "e", "/", "b", "m", "p">>,
              size |-> 250000],
      f4 |-> [name |-> <<"d", ".", "W", "e", "b", "P">>,
              type |-> <<"i", "m", "a", "g", "e", "/", "w", "e", "b", "p">>,
              size |-> 300],
      f5 |-> [name |-> <<"e", ".", "t", "x", "t">>,
              type |-> <<"t", "e", "x", "t", "/", "p", "l", "a", "i", "n">>,
              size |-> 10] ]

FileRefs == DOMAIN FileObjects

\* the File objects a picker or a drop delivers in SelectSpec
OfferedRefs == {"f1", "f2", "f4", "f5"}

\* the File objects a picker or a drop delivers in Spec; any number of
\* items of the working set may be copies of "f1", told apart by their ids
SpecRefs == {"f1", "f4"}

\* the File objects of the working sets BatchSpec starts from
BatchRefs == {"f1", "f2", "f3"}

\* the File objects of the working sets RetrievalSpec and EditSpec start from
RetrievalRefs == {"f1", "f3"}

FileName(f) == FileObjects[f].name
FileType(f) == FileObjects[f].type
FileSize(f) == FileObjects[f].size

\* Math.random().toString(36).substr(2, 9): some string; two calls may agree
IdSpace == {"id1", "id2"}

\* values the quality slider is moved to
QualityValues == {1, 95}

\* blob.size after a successful encode: the codec decides; the output may be
\* smaller or larger than the input
BlobSizes(f) == {(FileSize(f) * 2) \div 5, FileSize(f) + FileSize(f) \div 4}

(***************************************************************************)
(* Arithmetic of the component.                                            *)
(***************************************************************************)
Abs(n) == IF n < 0 THEN -n ELSE n

RECURSIVE GCD(_, _)
GCD(a, b) == IF b = 0 THEN a ELSE GCD(b, a % b)

\* a rational as a reduced fraction with a positive denominator
Frac(n, d) == LET g == GCD(Abs(n), d) IN [num |-> n \div g, den |-> d \div g]

FracLeq(p, q) == p.num * q.den <= q.num * p.den

\* ((i + 1) / files.length) * 100, as the value setProgress receives
ProgressValue(done, total) == Frac(done * 100, total)

\* toFixed(1) that cuts the digits after the first decimal instead of rounding
ToFixed1Truncating(n, d) ==
    IF d = 0
    THEN IF n = 0 THEN "NaN" ELSE IF n > 0 THEN "Infinity" ELSE "-Infinity"
    ELSE LET a == Abs(n) * 100
         IN  (IF n < 0 THEN "-" ELSE "") \o ToString(a \div d)
                 \o "." \o ToString(((a % d) * 10) \div d)

\* (n / d * 100).toFixed(1) on numbers: 0/0 is NaN, x/0 is +-Infinity;
\* otherwise the sign, then the magnitude rounded to the nearest tenth, the
\* larger one on a tie.  Long division, one decimal digit at a time.
ToFixed1(n, d) ==
    IF d = 0
    THEN IF n = 0 THEN "NaN" ELSE IF n > 0 THEN "Infinity" ELSE "-Infinity"
    ELSE LET a     == Abs(n) * 100
             r     == (a % d) * 10
             tenth == (a \div d) * 10 + (r \div d)
                          + (IF 2 * (r % d) >= d THEN 1 ELSE 0)
         IN  (IF n < 0 THEN "-" ELSE "") \o ToString(tenth \div 10)
                 \o "." \o ToString(tenth % 10)

\* ((originalSize - convertedSize) / originalSize * 100).toFixed(1)
CompressionRatio(originalSize, convertedSize) ==
    ToFixed1(originalSize - convertedSize, originalSize)

(***************************************************************************)
(* The state.                                                              *)
(***************************************************************************)
VARIABLES
    files,           \* useState<FileData[]>: the working set
    converting,      \* useState(false): a batch is Running
    convertedFiles,  \* useState<ConversionResult[]>: the result collection
    quality,         \* useState(95)
    progress,        \* useState(0)
    stats,           \* useState<Stats | null>
    batch,           \* closure and locals of the running convertAllFiles call
    conversions,     \* the convertToWebP calls whose promise is not resolved
    delivered,       \* history: the FileList last passed to handleFileSelect
                     \* (recorded in SelectSpec only)
    retrieval        \* the latest downloadAllFiles call: closure, timers,
                     \* and the saves it has issued

vars == <<files, converting, convertedFiles, quality, progress, stats, batch,
          conversions, delivered, retrieval>>

NoStats == [published |-> FALSE]

NoBatch == [files |-> <<>>, quality |-> 0, i |-> 0, results |-> <<>>,
            totalOriginalSize |-> 0, totalConvertedSize |-> 0]

\* no downloadAllFiles call has been made
NoRetrieval == [build |-> "none", results |-> <<>>, timers |-> {}, log |-> <<>>]

Init ==
    /\ files = <<>>
    /\ converting = FALSE
    /\ convertedFiles = <<>>
    /\ quality = 95
    /\ progress = Frac(0, 1)
    /\ stats = NoStats
    /\ batch = NoBatch
    /\ conversions = {}
    /\ delivered = <<>>
    /\ retrieval = NoRetrieval

(***************************************************************************)
(* convertToWebP (lines 37-74).  The promise it returns has no reject      *)
(* path: only the toBlob callback resolves it, and only for a non-null     *)
(* blob.  The Image gets an onload handler and no onerror handler.  Hence  *)
(* the await of line 124 never throws and the catch of lines 131-133 is    *)
(* never entered.                                                          *)
(***************************************************************************)
\* file.name.replace(/\.[^/.]+$/, '.webp'): the match is the last "." when
\* at least one character follows it and no "/" does
ReplaceExtension(name) ==
    LET dots == {k \in 1..Len(name) : name[k] = "."}
    IN  IF dots = {}
        THEN name
        ELSE LET p == CHOOSE k \in dots : \A j \in dots : j <= k
             IN  IF p < Len(name) /\ \A j \in (p + 1)..Len(name) : name[j] # "/"
                 THEN SubSeq(name, 1, p - 1) \o DotWebp
                 ELSE name

\* the executor of the promise for item number "index" of the batch:
\* img.src = URL.createObjectURL(file) starts the decode; quality is kept
\* for the later toBlob(.., 'image/webp', quality / 100)
StartConversion(index, file, q) ==
    [index |-> index, file |-> file, quality |-> Frac(q, 100), phase |-> "loading"]

\* the object passed to resolve (lines 57-68)
ConversionResult(file, blobSize) ==
    [original         |-> file,
     converted        |-> [name |-> ReplaceExtension(FileName(file)),
                           type |-> "image/webp",
                           size |-> blobSize],
     originalSize     |-> FileSize(file),
     convertedSize    |-> blobSize,
     compressionRatio |-> CompressionRatio(FileSize(file), blobSize)]

(***************************************************************************)
(* handleFileSelect (lines 77-92), reached from the file input's onChange  *)
(* and from handleDrop.                                                    *)
(***************************************************************************)
\* the filter without toLowerCase
IsAcceptedCaseSensitive(f) ==
    /\ StartsWith(FileType(f), ImagePrefix)
    /\ ~EndsWith(FileName(f), DotWebp)

\* file.type.startsWith('image/') && !file.name.toLowerCase().endsWith('.webp')
IsAccepted(f) ==
    /\ StartsWith(FileType(f), ImagePrefix)
    /\ ~EndsWith(ToLowerCase(FileName(f)), DotWebp)

\* Array.prototype.filter is SelectSeq; ids[k] is the value Math.random()
\* yields for the k-th accepted file
handleFileSelect(selectedFiles, ids) ==
    LET imageFiles == SelectSeq(selectedFiles, IsAccepted)
        fileData   == [k \in 1..Len(imageFiles) |->
                          [id   |-> ids[k],
                           file |-> imageFiles[k],
                           size |-> FileSize(imageFiles[k])]]
    IN  /\ files' = files \o fileData
        /\ UNCHANGED <<converting, convertedFiles, quality, progress, stats,
                       batch, conversions, retrieval>>

\* the FileLists a picker or a drop can deliver
Offers == UNION {[1..n -> OfferedRefs] : n \in 0..MaxOffer}

SpecOffers == UNION {[1..n -> SpecRefs] : n \in 0..MaxOffer}

\* the selections that keep the working set within "bound" items
SelectWithin(bound, selectedFiles, ids) ==
    /\ Len(files) + Len(SelectSeq(selectedFiles, IsAccepted)) <= bound
    /\ handleFileSelect(selectedFiles, ids)

FileSelect ==
    \E selectedFiles \in SpecOffers :
        \E ids \in [1..Len(SelectSeq(selectedFiles, IsAccepted)) -> IdSpace] :
            /\ SelectWithin(MaxFiles, selectedFiles, ids)
            /\ UNCHANGED delivered

\* if (!selectedFiles) return
FileSelectNull == UNCHANGED vars

(***************************************************************************)
(* removeFile (lines 106-108), from the delete button of a listed item.    *)
(***************************************************************************)
\* a removal that also drops the results made from the removed items
removeFileWithResults(fileId) ==
    LET Keep(f) == f.id # fileId
        Kept(r) == \A n \in 1..Len(files) :
                      files[n].id = fileId => files[n].file # r.original
    IN  /\ files' = SelectSeq(files, Keep)
        /\ convertedFiles' = SelectSeq(convertedFiles, Kept)
        /\ UNCHANGED <<converting, quality, progress, stats, batch, conversions,
                       delivered, retrieval>>

removeFile(fileId) ==
    LET Keep(f) == f.id # fileId
    IN  /\ files' = SelectSeq(files, Keep)
        /\ UNCHANGED <<converting, convertedFiles, quality, progress, stats,
                       batch, conversions, delivered, retrieval>>

RemoveFile == \E k \in 1..Len(files) : removeFile(files[k].id)

(***************************************************************************)
(* The quality slider (lines 202-209).                                     *)
(***************************************************************************)
setQuality(q) ==
    /\ quality' = q
    /\ UNCHANGED <<files, converting, convertedFiles, progress, stats, batch,
                   conversions, delivered, retrieval>>

QualityChange == \E q \in QualityValues \ {quality} : setQuality(q)

(***************************************************************************)
(* convertAllFiles (lines 111-145).                                        *)
(***************************************************************************)
\* the files the closure of this render holds, as the loop reads them
\* (files[i].file and files.length)
CapturedFiles == [k \in 1..Len(files) |-> files[k].file]

\* a loop that does not await: every remaining conversion starts at once
LaunchAll(b) ==
    {StartConversion(k, b.files[k], b.quality) : k \in (b.i + 1)..Len(b.files)}

\* a call that reads the quality of the latest render, not of the closure
LaunchAtLatestQuality(b) == {StartConversion(b.i + 1, b.files[b.i + 1], quality)}

\* the convertToWebP calls one turn of the loop makes before it awaits
\* (line 124): the one for files[i]
Launch(b) == {StartConversion(b.i + 1, b.files[b.i + 1], b.quality)}

\* a start of the batch that also clears the stats (a fourth reset)
convertAllFilesClearingStats ==
    IF Len(files) = 0
    THEN UNCHANGED vars
    ELSE LET b == [files |-> CapturedFiles, quality |-> quality, i |-> 0,
                   results |-> <<>>,
                   totalOriginalSize |-> 0, totalConvertedSize |-> 0]
         IN  /\ converting' = TRUE
             /\ progress' = Frac(0, 1)
             /\ convertedFiles' = <<>>
             /\ stats' = NoStats
             /\ batch' = b
             /\ conversions' = conversions \cup Launch(b)
             /\ UNCHANGED <<files, quality, delivered, retrieval>>

\* lines 112-124: the guard, the three resets, the locals, and the first
\* turn of the loop up to its await
convertAllFiles ==
    IF Len(files) = 0
    THEN UNCHANGED vars
    ELSE LET b == [files |-> CapturedFiles, quality |-> quality, i |-> 0,
                   results |-> <<>>,
                   totalOriginalSize |-> 0, totalConvertedSize |-> 0]
         IN  /\ converting' = TRUE
             /\ progress' = Frac(0, 1)
             /\ convertedFiles' = <<>>
             /\ batch' = b
             /\ conversions' = conversions \cup Launch(b)
             /\ UNCHANGED <<files, quality, stats, delivered, retrieval>>

\* the button is rendered inside {files.length > 0 && ...} (line 290)
ConvertButtonRendered == Len(files) > 0

\* a button that stays enabled during a batch
ConvertButtonNeverDisabled == FALSE

\* disabled={converting} (line 299)
ConvertButtonDisabled == converting

\* a click on the convert button; a disabled or absent button runs no handler
ConvertClick ==
    IF ConvertButtonRendered /\ ~ConvertButtonDisabled
    THEN convertAllFiles
    ELSE UNCHANGED vars

\* stats whose totalFiles is read from the working set as it is now
PublishStatsOfWorkingSet(b) ==
    [published          |-> TRUE,
     totalFiles         |-> Len(files),
     totalOriginalSize  |-> b.totalOriginalSize,
     totalConvertedSize |-> b.totalConvertedSize,
     totalSavings       |-> b.totalOriginalSize - b.totalConvertedSize,
     compressionRatio   |-> ToFixed1(b.totalOriginalSize - b.totalConvertedSize,
                                     b.totalOriginalSize)]

\* the object passed to setStats (lines 136-142)
PublishStats(b) ==
    [published          |-> TRUE,
     totalFiles         |-> Len(b.files),
     totalOriginalSize  |-> b.totalOriginalSize,
     totalConvertedSize |-> b.totalConvertedSize,
     totalSavings       |-> b.totalOriginalSize - b.totalConvertedSize,
     compressionRatio   |-> ToFixed1(b.totalOriginalSize - b.totalConvertedSize,
                                     b.totalOriginalSize)]

\* totalConvertedSize assigned (=) where the code adds (+=)
AccumulateOverwriting(b, result) ==
    [b EXCEPT !.results = Append(@, result),
              !.totalOriginalSize = @ + result.originalSize,
              !.totalConvertedSize = result.convertedSize,
              !.i = @ + 1]

\* lines 125-127: push the result, add to the running totals; then i++
Accumulate(b, result) ==
    [b EXCEPT !.results = Append(@, result),
              !.totalOriginalSize = @ + result.originalSize,
              !.totalConvertedSize = @ + result.convertedSize,
              !.i = @ + 1]

\* the await of line 124 returns "result" for conversion c: lines 125-130,
\* then the loop's next turn (line 122), which is either the next
\* convertToWebP call or lines 136-144
Resume(c, result) ==
    LET b == Accumulate(batch, result)
    IN  /\ progress' = ProgressValue(batch.i + 1, Len(batch.files))
        /\ convertedFiles' = Append(convertedFiles, result)
        /\ IF b.i < Len(b.files)
           THEN /\ batch' = b
                /\ conversions' = (conversions \ {c}) \cup Launch(b)
                /\ UNCHANGED <<converting, stats>>
           ELSE /\ stats' = PublishStats(b)
                /\ converting' = FALSE
                /\ batch' = NoBatch
                /\ conversions' = conversions \ {c}
        /\ UNCHANGED <<files, quality, delivered, retrieval>>

(***************************************************************************)
(* The codec's callbacks.                                                  *)
(***************************************************************************)
SetPhase(c, phase) ==
    /\ conversions' = (conversions \ {c}) \cup {[c EXCEPT !.phase = phase]}
    /\ UNCHANGED <<files, converting, convertedFiles, quality, progress, stats,
                   batch, delivered, retrieval>>

\* img.onload (lines 49-70): draw, then canvas.toBlob(.., quality / 100)
ImgOnload ==
    \E c \in conversions : c.phase = "loading" /\ SetPhase(c, "encoding")

\* the decode fails: the error event finds no handler, and the promise of
\* convertToWebP stays pending
ImgError ==
    \E c \in conversions : c.phase = "loading" /\ SetPhase(c, "undecodable")

\* the toBlob callback with a blob (lines 57-68): resolve, and the awaiting
\* convertAllFiles continues in the same turn of the event loop
ToBlobBytes ==
    \E c \in conversions :
        /\ c.phase = "encoding"
        /\ \E blobSize \in BlobSizes(c.file) :
               Resume(c, ConversionResult(c.file, blobSize))

\* the toBlob callback with null: if (!blob) return (line 55); the promise
\* stays pending
ToBlobNull ==
    \E c \in conversions : c.phase = "encoding" /\ SetPhase(c, "noBlob")

(***************************************************************************)
(* formatFileSize (lines 167-173).  The quotient bytes / k^i is exact in   *)
(* a double (k^i is a power of two), so toFixed(2) rounds the exact value. *)
(***************************************************************************)
\* const sizes = ['Bytes', 'KB', 'MB', 'GB']
Sizes == <<"Bytes", "KB", "MB", "GB">>

RECURSIVE Pow(_, _)
Pow(b, e) == IF e = 0 THEN 1 ELSE b * Pow(b, e - 1)

\* Math.floor(Math.log(bytes) / Math.log(b)) for an integer bytes >= 1
RECURSIVE FloorLog(_, _)
FloorLog(bytes, b) == IF bytes < b THEN 0 ELSE 1 + FloorLog(bytes \div b, b)

\* the integer nearest to 100 * a / d, the larger one on a tie: the digits
\* of (a / d).toFixed(2)
Hundredths(a, d) ==
    LET r == (a % d) * 100
    IN  (a \div d) * 100 + (r \div d) + (IF 2 * (r % d) >= d THEN 1 ELSE 0)

\* parseFloat(x.toFixed(2)) + ' ' for x = h / 100: the shortest numeral, so
\* "1.50" is written "1.5" and "2.00" is written "2"
ShortestNumeral(h) ==
    ToString(h \div 100)
        \o (IF h % 100 = 0 THEN ""
            ELSE "." \o ToString((h % 100) \div 10)
                     \o (IF h % 10 = 0 THEN "" ELSE ToString(h % 10)))

\* sizes[i], undefined outside 0..3
SizeUnit(i) == IF i + 1 \in DOMAIN Sizes THEN Sizes[i + 1] ELSE "undefined"

\* no guard for a negative argument: Math.log(bytes) is NaN, so are i,
\* Math.pow(k, i) and the quotient; NaN.toFixed(2) is "NaN", parseFloat
\* gives NaN, and sizes[NaN] is undefined
formatFileSize(bytes) ==
    IF bytes = 0 THEN "0 Bytes"
    ELSE IF bytes < 0 THEN "NaN" \o " " \o "undefined"
    ELSE LET i == FloorLog(bytes, 1024)
         IN  ShortestNumeral(Hundredths(bytes, Pow(1024, i))) \o " " \o SizeUnit(i)

\* convertedFiles.find(c => c.original === fileData.file) (line 345): the
\* first result made from that File object, as a set of at most one result
ResultShownFor(file) ==
    LET hits == {n \in 1..Len(convertedFiles) : convertedFiles[n].original = file}
    IN  IF hits = {}
        THEN {}
        ELSE {convertedFiles[CHOOSE n \in hits : \A m \in hits : n <= m]}

\* the byte counts the page passes to formatFileSize when it renders this
\* state: the stats panel (lines 238-246) and the rows of the file list
\* (lines 353, 364)
FormattedSizes ==
    (IF stats.published
     THEN {stats.totalOriginalSize, stats.totalConvertedSize, stats.totalSavings}
     ELSE {})
    \cup {files[n].size : n \in 1..Len(files)}
    \cup UNION {{r.convertedSize : r \in ResultShownFor(files[n].file)} :
                   n \in 1..Len(files)}

(***************************************************************************)
(* downloadAllFiles.  The repository holds two versions of the component,  *)
(* equal up to line 147: src/pages/index.tsx (lines 148-164) sets one      *)
(* timer per result, src/unnamed/part_000 (lines 148-187) runs a loop that *)
(* awaits a timer after each save.  Both are modelled.  A call is the      *)
(* record "retrieval":                                                     *)
(*   build    the version that made the call                               *)
(*   results  convertedFiles of the closure                                *)
(*   timers   the setTimeout calls not yet fired; "timeout" is counted in  *)
(*            milliseconds from the click                                  *)
(*   log      the saves issued (URL.createObjectURL ... a.click() ...      *)
(*            revokeObjectURL), each with the result's index, whether the  *)
(*            statements ran through or threw, and the time "at" for which *)
(*            the task that ran them was scheduled                         *)
(* Calls may overlap in the program; they share no state (each reads its   *)
(* own closure), and the model follows one call at a time: the download    *)
(* button is clicked again when the timers of the call before have fired.  *)
(***************************************************************************)
\* the save of one result runs through, or one of its statements throws
SaveOutcomes == {"saved", "failed"}

SaveEvent(index, outcome, at) == [index |-> index, outcome |-> outcome, at |-> at]

\* the timers of a call that fire next: the ones with the least timeout
DueTimers(r) == {t \in r.timers : \A u \in r.timers : t.timeout <= u.timeout}

\* index.tsx lines 152-163: forEach sets a timer for every result, the
\* timeout being index * 100 with index counted from 0
ForEachTimers(results) ==
    {[timeout |-> (n - 1) * 100, index |-> n] : n \in 1..Len(results)}

\* index.tsx lines 148-164
downloadAllFiles ==
    IF Len(convertedFiles) = 0
    THEN UNCHANGED vars
    ELSE /\ retrieval' = [build   |-> "pages/index.tsx",
                          results |-> convertedFiles,
                          timers  |-> ForEachTimers(convertedFiles),
                          log     |-> <<>>]
         /\ UNCHANGED <<files, converting, convertedFiles, quality, progress,
                        stats, batch, conversions, delivered>>

\* index.tsx lines 153-162: the callback of one timer; an exception ends
\* this callback only
SaveTimer ==
    /\ retrieval.build = "pages/index.tsx"
    /\ \E t \in DueTimers(retrieval) :
           \E outcome \in SaveOutcomes :
               retrieval' =
                   [retrieval EXCEPT
                       !.timers = @ \ {t},
                       !.log = Append(@, SaveEvent(t.index, outcome, t.timeout))]
    /\ UNCHANGED <<files, converting, convertedFiles, quality, progress,
                   stats, batch, conversions, delivered>>

\* part_000 lines 155-184: the turns of the for loop from result number i
\* on, in the task scheduled for time "at", up to the next await or the end
\* of the loop.  The saves of the first "failures" results throw: the catch
\* (lines 182-184) logs and the loop goes on at once, past the await of
\* lines 179-181, which stands inside the try.  The next save runs through,
\* and a timer of 500 ms is awaited unless that result is the last.
LoopTurns(results, i, at, failures) ==
    LET thrown == [n \in 1..failures |-> SaveEvent(i + n - 1, "failed", at)]
        j      == i + failures
    IN  IF j > Len(results)
        THEN [log |-> thrown, timers |-> {}]
        ELSE [log    |-> Append(thrown, SaveEvent(j, "saved", at)),
              timers |-> IF j < Len(results)
                         THEN {[timeout |-> at + 500, index |-> j + 1]}
                         ELSE {}]

\* part_000 lines 148-187, up to the first await
downloadAllFiles_part_000 ==
    IF Len(convertedFiles) = 0
    THEN UNCHANGED vars
    ELSE /\ \E failures \in 0..Len(convertedFiles) :
                LET turns == LoopTurns(convertedFiles, 1, 0, failures)
                IN  retrieval' = [build   |-> "unnamed/part_000",
                                  results |-> convertedFiles,
                                  timers  |-> turns.timers,
                                  log     |-> turns.log]
         /\ UNCHANGED <<files, converting, convertedFiles, quality, progress,
                        stats, batch, conversions, delivered>>

\* part_000 line 180: the timer resolves the awaited promise and the loop
\* goes on with the next result
DelayElapsed ==
    /\ retrieval.build = "unnamed/part_000"
    /\ \E t \in DueTimers(retrieval) :
           \E failures \in 0..(Len(retrieval.results) - t.index + 1) :
               LET turns == LoopTurns(retrieval.results, t.index, t.timeout, failures)
               IN  retrieval' = [retrieval EXCEPT !.timers = turns.timers,
                                                  !.log = @ \o turns.log]
    /\ UNCHANGED <<files, converting, convertedFiles, quality, progress,
                   stats, batch, conversions, delivered>>

\* the button is rendered inside {files.length > 0 && ...} (line 290) and
\* {convertedFiles.length > 0 && ...} (line 314)
DownloadButtonRendered == Len(files) > 0 /\ Len(convertedFiles) > 0

\* every timer of the latest call has fired
RetrievalDone == retrieval.timers = {}

\* a click on the download button of index.tsx (lines 315-321)
DownloadClick ==
    /\ RetrievalDone
    /\ IF DownloadButtonRendered THEN downloadAllFiles ELSE UNCHANGED vars

\* a click on the download button of part_000 (lines 355-361)
DownloadClick_part_000 ==
    /\ RetrievalDone
    /\ IF DownloadButtonRendered THEN downloadAllFiles_part_000 ELSE UNCHANGED vars

(***************************************************************************)
(* Spec: the whole component.                                              *)
(***************************************************************************)
Next ==
    \/ FileSelect
    \/ FileSelectNull
    \/ RemoveFile
    \/ QualityChange
    \/ ConvertClick
    \/ ImgOnload
    \/ ImgError
    \/ ToBlobBytes
    \/ ToBlobNull

Spec == Init /\ [][Next]_vars

(***************************************************************************)
(* SelectSpec: selections and removals alone, with the delivered FileList  *)
(* recorded.                                                               *)
(***************************************************************************)
FileSelectRecorded ==
    \E selectedFiles \in Offers :
        \E ids \in [1..Len(SelectSeq(selectedFiles, IsAccepted)) -> IdSpace] :
            /\ SelectWithin(MaxSelectFiles, selectedFiles, ids)
            /\ delivered' = selectedFiles

SelectNext ==
    \/ FileSelectRecorded
    \/ RemoveFile

SelectSpec == Init /\ [][SelectNext]_vars

(***************************************************************************)
(* BatchSpec: the pipeline alone, started on any working set of accepted   *)
(* files and at any quality.  FairBatchSpec adds what the browser          *)
(* guarantees: an image that is loading ends in a load or an error event,  *)
(* and toBlob calls its callback.                                          *)
(***************************************************************************)
\* the working set a sequence of accepted File objects leaves behind
WorkingSetOf(refs) ==
    [k \in 1..Len(refs) |->
        [id   |-> IF k % 2 = 1 THEN "id1" ELSE "id2",
         file |-> refs[k],
         size |-> FileSize(refs[k])]]

BatchInit ==
    /\ files \in {WorkingSetOf(refs) :
                     refs \in UNION {[1..n -> BatchRefs] : n \in 1..MaxBatchFiles}}
    /\ converting = FALSE
    /\ convertedFiles = <<>>
    /\ quality \in QualityValues
    /\ progress = Frac(0, 1)
    /\ stats = NoStats
    /\ batch = NoBatch
    /\ conversions = {}
    /\ delivered = <<>>
    /\ retrieval = NoRetrieval

ImageSettles == ImgOnload \/ ImgError

ToBlobCalls == ToBlobBytes \/ ToBlobNull

BatchNext ==
    \/ ConvertClick
    \/ ImgOnload
    \/ ImgError
    \/ ToBlobBytes
    \/ ToBlobNull

BatchSpec == BatchInit /\ [][BatchNext]_vars

FairBatchSpec ==
    BatchSpec /\ WF_vars(ImageSettles) /\ WF_vars(ToBlobCalls)

(***************************************************************************)
(* RetrievalSpec: batches over a working set, removals, and the retrieval  *)
(* of the results by either version of downloadAllFiles.  The codec        *)
(* succeeds, so that every batch yields its results.                       *)
(***************************************************************************)
RetrievalInit ==
    /\ files \in {WorkingSetOf(refs) :
                     refs \in UNION {[1..n -> RetrievalRefs] : n \in 1..MaxRetrievalFiles}}
    /\ converting = FALSE
    /\ convertedFiles = <<>>
    /\ quality = 95
    /\ progress = Frac(0, 1)
    /\ stats = NoStats
    /\ batch = NoBatch
    /\ conversions = {}
    /\ delivered = <<>>
    /\ retrieval = NoRetrieval

RetrievalNext ==
    \/ ConvertClick
    \/ ImgOnload
    \/ ToBlobBytes
    \/ RemoveFile
    \/ DownloadClick
    \/ DownloadClick_part_000
    \/ SaveTimer
    \/ DelayElapsed

RetrievalSpec == RetrievalInit /\ [][RetrievalNext]_vars

(***************************************************************************)
(* EditSpec: batches over a working set of different files that the user   *)
(* edits meanwhile: items are removed, a file is added, the quality slider *)
(* is moved.  The codec succeeds.                                          *)
(***************************************************************************)
\* the FileLists a picker or a drop delivers in EditSpec
EditOffers == {<<>>, <<"f1">>}

FileSelectOne ==
    \E selectedFiles \in EditOffers :
        \E ids \in [1..Len(SelectSeq(selectedFiles, IsAccepted)) -> IdSpace] :
            /\ SelectWithin(MaxRetrievalFiles, selectedFiles, ids)
            /\ UNCHANGED delivered

EditNext ==
    \/ FileSelectOne
    \/ RemoveFile
    \/ QualityChange
    \/ ConvertClick
    \/ ImgOnload
    \/ ToBlobBytes

EditSpec == RetrievalInit /\ [][EditNext]_vars

(***************************************************************************)
(* Vocabulary of the properties.                                           *)
(***************************************************************************)
Hundred == Frac(100, 1)

\* phases in which a conversion stays for ever: its promise is pending and
\* no callback is left that could settle it
FailedPhases == {"undecodable", "noBlob"}

\* the conversion of item number k of the running batch has failed
FailedAt(k) ==
    converting /\ \E c \in conversions : c.index = k /\ c.phase \in FailedPhases

\* the batch has completed and no new one has started
Completed == ~converting /\ stats.published

\* the sum of a sequence of numbers
RECURSIVE SumSeq(_)
SumSeq(s) == IF s = <<>> THEN 0 ELSE Head(s) + SumSeq(Tail(s))

OriginalSizes(rs) == [k \in 1..Len(rs) |-> rs[k].originalSize]

ConvertedSizes(rs) == [k \in 1..Len(rs) |-> rs[k].convertedSize]

\* the source File objects of a result collection, in its order
Originals(rs) == [k \in 1..Len(rs) |-> rs[k].original]

\* s is obtained from t by deleting items
RECURSIVE IsSubsequence(_, _)
IsSubsequence(s, t) ==
    IF s = <<>> THEN TRUE
    ELSE IF t = <<>> THEN FALSE
    ELSE IF Head(s) = Head(t) THEN IsSubsequence(Tail(s), Tail(t))
    ELSE IsSubsequence(s, Tail(t))

(***************************************************************************)
(* C1.  During a batch the progress value never decreases, and it is       *)
(* exactly 100 once the last item has been processed, whether that item    *)
(* succeeded or failed.                                                    *)
(*                                                                         *)
(* The first half holds (C1_ProgressMonotone).  The second half is         *)
(* C1_ProgressReaches100: the last item has been processed when the batch  *)
(* has completed or when the conversion of the last item has failed.       *)
(***************************************************************************)
C1_ProgressMonotone == [][converting => FracLeq(progress, progress')]_vars

C1_ProgressReaches100 ==
    (Completed \/ FailedAt(Len(batch.files))) => progress = Hundred

(***************************************************************************)
(* C2.  Every batch that enters Running eventually leaves Running, with    *)
(* stats published, whatever the codec does with each item.                *)
(***************************************************************************)
C2_BatchLeavesRunning == converting ~> Completed

(***************************************************************************)
(* C3.  When the conversion of item k fails, no result is appended for     *)
(* item k and the loop goes on to the items after k; the completed batch   *)
(* holds exactly the items that succeeded: a 2-item batch whose item 2     *)
(* fails ends with one result and an aggregate equal to item 1's sizes.    *)
(***************************************************************************)
C3_FailedItemIsSkipped ==
    /\ \A k \in 1..MaxBatchFiles :
           FailedAt(k) ~> (~converting \/ batch.i >= k)
    /\ (FailedAt(2) /\ Len(batch.files) = 2)
           ~> /\ Completed
              /\ Len(convertedFiles) = 1
              /\ stats.totalOriginalSize = convertedFiles[1].originalSize
              /\ stats.totalConvertedSize = convertedFiles[1].convertedSize

(***************************************************************************)
(* C4.  A batch in which every item fails completes with an empty result   *)
(* collection and publishes the compressionRatio "0.0".                    *)
(***************************************************************************)
C4_AllFailedPublishesZero ==
    (FailedAt(1) /\ Len(batch.files) = 1)
        ~> /\ Completed
           /\ convertedFiles = <<>>
           /\ stats.compressionRatio = "0.0"

(***************************************************************************)
(* C5.  A batch starts (Running is entered, progress and the result        *)
(* collection are reset) only from a click with a non-empty working set    *)
(* while no batch is Running; a click with an empty working set or while   *)
(* Running changes nothing, so that a Running batch is never restarted.    *)
(***************************************************************************)
C5_BatchStartsOnlyWhenIdle ==
    [][ /\ (ConvertClick /\ (converting \/ files = <<>>)) => UNCHANGED vars
        /\ (~converting /\ converting')
               => /\ files # <<>>
                  /\ progress' = Frac(0, 1)
                  /\ convertedFiles' = <<>>
                  /\ batch'.files = CapturedFiles
                  /\ batch'.i = 0
        /\ (converting /\ converting')
               => /\ batch'.files = batch.files
                  /\ batch'.i >= batch.i
                  /\ Len(convertedFiles') >= Len(convertedFiles)
      ]_vars

\* a Running batch with results already produced, its button in the page
C5_Witness ==
    converting /\ files # <<>> /\ convertedFiles # <<>> /\ batch.i >= 1

(***************************************************************************)
(* C6.  Conversions are strictly sequential and in input order: at most    *)
(* one conversion is in flight, it is the one for the item right after     *)
(* the items that have finished, and the result collection is a            *)
(* subsequence of the batch's input order.                                 *)
(***************************************************************************)
C6_SequentialInOrder ==
    [][ /\ Cardinality(conversions') <= 1
        /\ \A c \in conversions' :
               /\ converting'
               /\ c.index = batch'.i + 1
               /\ c.index = Len(convertedFiles') + 1
               /\ c.file = batch'.files[c.index]
        /\ converting => IsSubsequence(Originals(convertedFiles'), batch.files)
      ]_vars

\* the second item of a batch is in flight after the first has finished
C6_Witness ==
    /\ converting
    /\ Len(convertedFiles) = 1
    /\ \E c \in conversions : c.index = 2 /\ c.phase = "encoding"

(***************************************************************************)
(* C7.  At batch completion the published totalOriginalSize and            *)
(* totalConvertedSize are the sums of originalSize and convertedSize over  *)
(* the results in the result collection, and totalSavings is their         *)
(* difference exactly, negative when the outputs are larger.               *)
(***************************************************************************)
C7_StatsAreSumsOfResults ==
    Completed =>
        /\ stats.totalOriginalSize = SumSeq(OriginalSizes(convertedFiles))
        /\ stats.totalConvertedSize = SumSeq(ConvertedSizes(convertedFiles))
        /\ stats.totalSavings =
               SumSeq(OriginalSizes(convertedFiles)) - SumSeq(ConvertedSizes(convertedFiles))

\* a completed batch of several results whose outputs are larger in total
C7_Witness ==
    Completed /\ Len(convertedFiles) >= 2 /\ stats.totalSavings < 0

(***************************************************************************)
(* C8.  The compressionRatio of every result and of the stats is           *)
(* (originalSize - convertedSize) / originalSize x 100 written with one    *)
(* decimal digit; three items of 1,000,000 / 500,000 / 250,000 bytes       *)
(* converted to 400,000 / 200,000 / 100,000 bytes give the totals          *)
(* 1,750,000 / 700,000 / 1,050,000 and the ratio "60.0".                   *)
(***************************************************************************)
\* the decimal numeral of t tenths
OneDecimal(negative, t) ==
    (IF negative THEN "-" ELSE "") \o ToString(t \div 10) \o "." \o ToString(t % 10)

\* str is the one-decimal numeral nearest to 100 * n / d
IsPercentage(str, n, d) ==
    /\ d > 0
    /\ LET a == 100 * Abs(n)
       IN  \E e \in 0..10 :
               /\ 2 * Abs(10 * (a % d) - e * d) <= d
               /\ str = OneDecimal(n < 0, 10 * (a \div d) + e)

C8_RatioHasOneDecimal ==
    /\ \A k \in 1..Len(convertedFiles) :
           LET r == convertedFiles[k]
           IN  IsPercentage(r.compressionRatio,
                            r.originalSize - r.convertedSize, r.originalSize)
    /\ stats.published =>
           IsPercentage(stats.compressionRatio,
                        stats.totalOriginalSize - stats.totalConvertedSize,
                        stats.totalOriginalSize)
    /\ ( /\ Completed
         /\ OriginalSizes(convertedFiles) = <<1000000, 500000, 250000>>
         /\ ConvertedSizes(convertedFiles) = <<400000, 200000, 100000>> )
           => /\ stats.totalOriginalSize = 1750000
              /\ stats.totalConvertedSize = 700000
              /\ stats.totalSavings = 1050000
              /\ stats.compressionRatio = "60.0"

\* the scenario's batch has completed
C8_Witness ==
    /\ Completed
    /\ OriginalSizes(convertedFiles) = <<1000000, 500000, 250000>>
    /\ ConvertedSizes(convertedFiles) = <<400000, 200000, 100000>>

DeclaresImage(f) ==
    LET t == FileType(f)
    IN  Len(t) >= 6 /\ <<t[1], t[2], t[3], t[4], t[5], t[6]>> = <<"i", "m", "a", "g", "e", "/">>

WebpSuffixes ==
    {<<".", w, e, b, p>> : w \in {"w", "W"}, e \in {"e", "E"},
                           b \in {"b", "B"}, p \in {"p", "P"}}

CarriesWebpExtension(f) ==
    LET n == FileName(f)
    IN  Len(n) >= 5 /\ <<n[Len(n) - 4], n[Len(n) - 3], n[Len(n) - 2],
                         n[Len(n) - 1], n[Len(n)]>> \in WebpSuffixes

Eligible(f) == DeclaresImage(f) /\ ~CarriesWebpExtension(f)

RECURSIVE Eligibles(_)
Eligibles(s) ==
    IF s = <<>> THEN <<>>
    ELSE IF Eligible(Head(s)) THEN <<Head(s)>> \o Eligibles(Tail(s))
    ELSE Eligibles(Tail(s))

C10_WorkingSetIsFiltered ==
    [][ /\ \A k \in 1..Len(files') : Eligible(files'[k].file)
        /\ Len(files') >= Len(files)
               => /\ SubSeq(files', 1, Len(files)) = files
                  /\ [k \in 1..(Len(files') - Len(files)) |-> files'[Len(files) + k].file]
                         = Eligibles(delivered')
      ]_vars

\* a selection that offered an item to keep and an item to drop has acted
C10_Witness ==
    /\ Len(delivered) = 2
    /\ ~Eligible(delivered[1])
    /\ Eligible(delivered[2])
    /\ files # <<>>
    /\ files[Len(files)].file = delivered[2]

(***************************************************************************)
(* C11.  Item ids are unique and never reused: an id assigned by a         *)
(* selection differs from the id of every item already in the working set  *)
(* and of every other item of the same selection, so that removeFile(id)   *)
(* removes exactly one item.                                               *)
(*                                                                         *)
(* The id is Math.random().toString(36).substr(2, 9) (line 85) and nothing *)
(* compares it with the ids in use; two draws may agree.  The formula      *)
(* states the part of the claim about the items in the working set (an id  *)
(* of an item removed earlier is not remembered by the component either).  *)
(***************************************************************************)
C11_IdsAreUnique ==
    [][ /\ \A j, k \in 1..Len(files') :
               j # k => files'[j].id # files'[k].id
        /\ Len(files') < Len(files) => Len(files') = Len(files) - 1
      ]_vars

(***************************************************************************)
(* C12.  Every result of a successful conversion, at any quality, has a    *)
(* convertedSize of at least 0 and an output name that ends in ".webp":    *)
(* the text after the last "." of the source name is replaced by "webp",   *)
(* and a source name without any "." gets the extension as well.           *)
(***************************************************************************)
\* the positions of "." in a name
DotsOf(name) == {k \in 1..Len(name) : name[k] = "."}

\* the name up to and including its last "."; the whole name and a "." when
\* it has none
StemOf(name) ==
    IF DotsOf(name) = {}
    THEN name \o <<".">>
    ELSE SubSeq(name, 1, CHOOSE k \in DotsOf(name) : \A j \in DotsOf(name) : j <= k)

C12_OutputNameEndsWithWebp ==
    \A k \in 1..Len(convertedFiles) :
        LET r == convertedFiles[k]
        IN  /\ r.convertedSize >= 0
            /\ r.converted.size = r.convertedSize
            /\ r.converted.name = StemOf(FileName(r.original)) \o <<"w", "e", "b", "p">>

(***************************************************************************)
(* C13.  formatFileSize maps every byte count the page passes to it        *)
(* (sizes of items, converted sizes, totals, and totalSavings, which may   *)
(* be zero or negative) to a numeric magnitude followed by one of the      *)
(* units Bytes, KB, MB, GB; formatFileSize(0) = "0 Bytes" and              *)
(* formatFileSize(1536) = "1.5 KB".                                        *)
(***************************************************************************)
\* str writes the byte count in one of the four units, to the hundredth
IsMagnitudeWithUnit(str, bytes) ==
    \E u \in 1..4 :
        str = (IF bytes < 0 THEN "-" ELSE "")
                  \o ShortestNumeral(Hundredths(Abs(bytes), Pow(1024, u - 1)))
                  \o " " \o Sizes[u]

C13_FormatterYieldsMagnitudeAndUnit ==
    /\ formatFileSize(0) = "0 Bytes"
    /\ formatFileSize(1536) = "1.5 KB"
    /\ \A bytes \in FormattedSizes :
           IsMagnitudeWithUnit(formatFileSize(bytes), bytes)

\* the formatter is right on the byte counts that are not negative
C13_FormatsNonNegativeSizes ==
    \A bytes \in FormattedSizes :
        bytes >= 0 => IsMagnitudeWithUnit(formatFileSize(bytes), bytes)

(***************************************************************************)
(* C14.  One call of downloadAllFiles over a result collection of length   *)
(* m issues exactly one save per result, in the order of the collection,   *)
(* with a delay between consecutive saves; a save that fails for result j  *)
(* does not keep the saves of results j+1..m from being issued; a call on  *)
(* an empty collection issues no save.                                     *)
(*                                                                         *)
(* C14_SavesEachResultOnceInOrder is the claim without the delay, and      *)
(* holds of both versions.  C14_RetrievalIsPaced is the whole claim: the   *)
(* task that issues a save is scheduled later than the task that issued    *)
(* the save before it.                                                     *)
(***************************************************************************)
C14_SavesEachResultOnceInOrder ==
    /\ Len(retrieval.log) <= Len(retrieval.results)
    /\ \A n \in 1..Len(retrieval.log) : retrieval.log[n].index = n
    /\ RetrievalDone => Len(retrieval.log) = Len(retrieval.results)
    /\ retrieval.results = <<>> => retrieval = NoRetrieval

C14_RetrievalIsPaced ==
    /\ C14_SavesEachResultOnceInOrder
    /\ \A n \in 2..Len(retrieval.log) :
           retrieval.log[n].at > retrieval.log[n - 1].at

(***************************************************************************)
(* C15.  stats is written only by the step that completes a batch, and     *)
(* that step replaces all five fields together with the values of the      *)
(* batch that completes; a selection, a removal, a quality change, the     *)
(* start of a batch, the progress of an item and a retrieval leave every   *)
(* field of stats as it was.                                               *)
(***************************************************************************)
\* st holds the five values of the batch with the closure b and the result
\* collection rs
StatsOfBatch(st, b, rs) ==
    /\ st.published
    /\ DOMAIN st = {"published", "totalFiles", "totalOriginalSize",
                    "totalConvertedSize", "totalSavings", "compressionRatio"}
    /\ st.totalFiles = Len(b.files)
    /\ st.totalOriginalSize = SumSeq(OriginalSizes(rs))
    /\ st.totalConvertedSize = SumSeq(ConvertedSizes(rs))
    /\ st.totalSavings = SumSeq(OriginalSizes(rs)) - SumSeq(ConvertedSizes(rs))
    /\ IsPercentage(st.compressionRatio,
                    SumSeq(OriginalSizes(rs)) - SumSeq(ConvertedSizes(rs)),
                    SumSeq(OriginalSizes(rs)))

C15_StatsWrittenOnlyAtCompletion ==
    [][ /\ stats' # stats => (converting /\ ~converting')
        /\ (converting /\ ~converting') => StatsOfBatch(stats', batch, convertedFiles')
      ]_vars

\* the stats of a batch of one are still shown while a later batch over an
\* edited working set, at another quality, has produced its first result
C15_Witness ==
    /\ stats.published
    /\ stats.totalFiles = 1
    /\ converting
    /\ Len(batch.files) = 2
    /\ Len(convertedFiles) = 1
    /\ quality # batch.quality

(***************************************************************************)
(* C16.  A batch runs over the working set and the quality as they were    *)
(* when it started: adding items, removing items and moving the quality    *)
(* slider while the batch is Running change neither the items it attempts  *)
(* and their order, nor the quality passed to each conversion, nor the     *)
(* denominator of progress and of totalFiles.                              *)
(*                                                                         *)
(* batch.files and batch.quality are the closure of the call; the formula  *)
(* states that they are the working set and the quality of the click, that *)
(* they stay, and that every conversion, progress value and totalFiles is  *)
(* computed from them.                                                     *)
(***************************************************************************)
C16_BatchRunsOnItsSnapshot ==
    [][ /\ (~converting /\ converting')
               => /\ batch'.files = [n \in 1..Len(files) |-> files[n].file]
                  /\ batch'.quality = quality
        /\ (converting /\ converting')
               => /\ batch'.files = batch.files
                  /\ batch'.quality = batch.quality
        /\ (converting /\ (files' # files \/ quality' # quality))
               => /\ converting'
                  /\ batch' = batch
                  /\ conversions' = conversions
                  /\ progress' = progress
                  /\ convertedFiles' = convertedFiles
        /\ converting'
               => /\ \A c \in conversions' :
                         /\ c.index = Len(convertedFiles') + 1
                         /\ c.file = batch'.files[c.index]
                         /\ c.quality.num * 100 = batch'.quality * c.quality.den
                  /\ Originals(convertedFiles')
                         = SubSeq(batch'.files, 1, Len(convertedFiles'))
                  /\ progress'.num * Len(batch'.files)
                         = 100 * Len(convertedFiles') * progress'.den
        /\ (converting /\ ~converting')
               => /\ stats'.totalFiles = Len(batch.files)
                  /\ Originals(convertedFiles') = batch.files
                  /\ progress' = Hundred
      ]_vars

\* the second item of a batch is in flight after the working set and the
\* quality have been changed
C16_Witness ==
    /\ converting
    /\ Len(convertedFiles) = 1
    /\ \E c \in conversions : c.index = 2
    /\ quality # batch.quality
    /\ Len(files) # Len(batch.files)
    /\ \A n \in 1..Len(files) : files[n].file # batch.files[2]

(***************************************************************************)
(* C17.  removeFile(id) changes the working set only: it removes the items *)
(* that carry the id and leaves the result collection, stats, progress and *)
(* the Running flag as they are, also while a batch is Running.  Hence a   *)
(* result whose source item has been removed stays in the result           *)
(* collection, and a call of downloadAllFiles made afterwards takes the    *)
(* whole collection and saves that result too.                             *)
(***************************************************************************)
\* the items of s that do not carry the id
RECURSIVE WithoutId(_, _)
WithoutId(s, id) ==
    IF s = <<>> THEN <<>>
    ELSE IF Head(s).id = id THEN WithoutId(Tail(s), id)
    ELSE <<Head(s)>> \o WithoutId(Tail(s), id)

\* the File objects of the items in the working set
WorkingFiles == {files[n].file : n \in 1..Len(files)}

C17_RemovalLeavesResults ==
    [][ /\ Len(files') < Len(files)
               => /\ \E n \in 1..Len(files) : files' = WithoutId(files, files[n].id)
                  /\ convertedFiles' = convertedFiles
                  /\ stats' = stats
                  /\ progress' = progress
                  /\ converting' = converting
        /\ retrieval'.results # retrieval.results
               => retrieval'.results = convertedFiles
        /\ (retrieval'.timers = {} /\ retrieval'.results # <<>>)
               => \A n \in 1..Len(retrieval'.results) :
                      /\ n <= Len(retrieval'.log)
                      /\ retrieval'.log[n].index = n
      ]_vars

\* a retrieval has saved a result whose source item is no longer in the
\* working set, from a result collection that still holds it; the working
\* set is not empty, so the download button was there after the removal
C17_Witness ==
    /\ files # <<>>
    /\ retrieval.timers = {}
    /\ retrieval.results = convertedFiles
    /\ \E n \in 1..Len(retrieval.results) :
           /\ retrieval.results[n].original \notin WorkingFiles
           /\ retrieval.log[n].index = n
           /\ retrieval.log[n].outcome = "saved"

\* a removal during a batch: the batch is Running with a result made from
\* a file that is no longer in the working set
C17_WitnessRunning ==
    /\ converting
    /\ \E n \in 1..Len(convertedFiles) : convertedFiles[n].original \notin WorkingFiles

=============================================================================
